---- MODULE Spec2Model ----
(***************************************************************************)
(* Model of housing_app.py, a Streamlit dashboard over a housing CSV.      *)
(*                                                                         *)
(* Streamlit runs the script top to bottom once when the session opens and *)
(* once more for every widget interaction; a run is one render cycle.      *)
(* Each step of the script is one action, sequenced by pc.                 *)
(*                                                                         *)
(* Numbers are exact: a mean is kept as the pair (sum, n) and a percentage *)
(* of N rows is kept in units of 1/N percent, so floating-point rounding   *)
(* is not modelled.  A mean with n = 0 is pandas' NaN (0/0).               *)
(*                                                                         *)
(* A table is its column names and its rows; a row carries the columns the *)
(* filter and the aggregates read (City, Price, Beds, Baths, Square Feet). *)
(* Address and the coordinate values are not read by any of them; only the *)
(* presence of the Latitude and Longitude columns is kept.  The scatter    *)
(* plots of tab5 (lines 258-291) only read df and are left out.  A slider  *)
(* whose column has one value is taken to return that value twice.         *)
(***************************************************************************)
EXTENDS Integers, Sequences, FiniteSets, TLC

VARIABLES
    csv,            \* contents of housing_with_coordinates.csv (fixed for the session)
    tieRank,        \* order in which this build's unstable sort leaves equal keys
    reads,          \* number of pd.read_csv calls made in the session
    pc,             \* position of the script
    widget,         \* Streamlit session state of the sidebar widgets
    df,             \* the loaded table (a pandas DataFrame)
    price_range, cities, min_beds, max_beds, min_baths, max_baths, sqft_range,
    filtered_data,  \* the filtered view
    city_names,     \* header label
    tab1, tab2, tab3,
    map, heatmap,   \* tab4
    city_avg_price, threshold, city_listings   \* tab5

vars == <<csv, tieRank, reads, pc, widget, df, price_range, cities, min_beds,
          max_beds, min_baths, max_baths, sqft_range, filtered_data, city_names,
          tab1, tab2, tab3, map, heatmap, city_avg_price, threshold, city_listings>>

controls == <<price_range, cities, min_beds, max_beds, min_baths, max_baths, sqft_range>>
views == <<filtered_data, city_names, tab1, tab2, tab3, map, heatmap,
           city_avg_price, threshold, city_listings>>

-----------------------------------------------------------------------------
(* Bounds *)

MaxRows == 2        \* rows of the dataset in the render-cycle and filter specifications
MaxAggRows == 4     \* rows of the dataset in the aggregate specification
MaxCycles == 3      \* render cycles (script runs) in one session

-----------------------------------------------------------------------------
(* Data *)

Seed == "Huntington Beach"
Other == "Other"
\* City names of the dataset; none of them is the synthetic label "Other".
Cities == {"Anaheim", "Huntington Beach", "Irvine"}

\* Labels in the order pandas' groupby sorts them (ascending strings).
LabelOrder == <<"Anaheim", "Huntington Beach", "Irvine", "Other">>

Vals == {1, 2}

Listing(c, p, b, ba, s) ==
    [City |-> c, Price |-> p, Beds |-> b, Baths |-> ba, Square_Feet |-> s]

Listings ==
    { Listing("Huntington Beach", 1, 1, 1, 1),
      Listing("Huntington Beach", 2, 2, 2, 2),
      Listing("Irvine", 2, 1, 2, 1),
      Listing("Anaheim", 1, 2, 1, 2) }

BaseColumns == {"Address", "City", "Price", "Beds", "Baths", "Square_Feet"}

SeqsUpTo(S, n) == UNION { [1..k -> S] : k \in 0..n }

Range(s) == { s[i] : i \in DOMAIN s }

Files(n) ==
    [rows : SeqsUpTo(Listings, n), hasLat : BOOLEAN, hasLon : BOOLEAN]

TieRanks == { f \in [Cities -> 1..Cardinality(Cities)] :
                \A a, b \in Cities : a # b => f[a] # f[b] }

\* Sequences of distinct cities: what a multiselect can return.
CitySelections ==
    { s \in SeqsUpTo(Cities, Cardinality(Cities)) :
        \A i, j \in DOMAIN s : i # j => s[i] # s[j] }

-----------------------------------------------------------------------------
(* Values of names the script has not assigned yet *)

NoFrame == [columns |-> {}, rows |-> <<>>, Selected |-> <<>>, Color |-> <<>>]
NoView == [shown |-> "none", data |-> <<>>]
NoTab3 == [shown |-> "none", data |-> <<>>, download |-> <<>>]
NoMap == [shown |-> "none", points |-> <<>>]
NoWidgets == [k \in {"price", "cities", "beds", "baths", "sqft"} |->
                [set |-> FALSE, val |-> <<>>]]

-----------------------------------------------------------------------------
(* pd.read_csv *)

read_csv(file) ==
    [columns |-> BaseColumns
                   \cup (IF file.hasLat THEN {"Latitude"} ELSE {})
                   \cup (IF file.hasLon THEN {"Longitude"} ELSE {}),
     rows |-> file.rows,
     Selected |-> <<>>,
     Color |-> <<>>]

-----------------------------------------------------------------------------
(* Column helpers *)

Column(frame, name) == [i \in DOMAIN frame.rows |-> frame.rows[i][name]]

Min(s) == CHOOSE x \in Range(s) : \A y \in Range(s) : x <= y
Max(s) == CHOOSE x \in Range(s) : \A y \in Range(s) : x >= y

RECURSIVE SumSeq(_)
SumSeq(s) == IF s = <<>> THEN 0 ELSE s[1] + SumSeq(Tail(s))

\* Series.mean(): sum / count; count 0 gives NaN.
Mean(s) == [sum |-> SumSeq(s), n |-> Len(s)]
IsNaN(m) == m.n = 0

\* Series.unique(): values in order of first appearance.
RECURSIVE unique(_)
unique(s) ==
    IF s = <<>> THEN <<>>
    ELSE LET rest == unique(SubSeq(s, 1, Len(s) - 1))
             last == s[Len(s)]
         IN IF last \in Range(rest) THEN rest ELSE Append(rest, last)

-----------------------------------------------------------------------------
(* Sidebar widgets *)

SliderKeys == {"price", "beds", "baths", "sqft"}

SliderColumn(k) ==
    CASE k = "price" -> "Price"
      [] k = "beds" -> "Beds"
      [] k = "baths" -> "Baths"
      [] k = "sqft" -> "Square_Feet"

SliderMin(frame, k) == Min(Column(frame, SliderColumn(k)))
SliderMax(frame, k) == Max(Column(frame, SliderColumn(k)))

\* value=(min, max): a range slider starts at its full range.
SliderDefault(frame, k) == <<SliderMin(frame, k), SliderMax(frame, k)>>

\* A range slider returns a pair lo <= hi inside [min_value, max_value].
SliderChoices(frame, k) ==
    { p \in (SliderMin(frame, k)..SliderMax(frame, k))
               \X (SliderMin(frame, k)..SliderMax(frame, k)) : p[1] <= p[2] }

CityOptions(frame) == unique(Column(frame, "City"))

\* no default selection
DefaultCitiesNone == <<>>
DefaultCities == <<Seed>>

\* What a widget returns in a run: the user's value once set, its default before.
SliderValue(frame, k) ==
    IF widget[k].set THEN widget[k].val ELSE SliderDefault(frame, k)

CitiesValue == IF widget["cities"].set THEN widget["cities"].val ELSE DefaultCities

-----------------------------------------------------------------------------
(* Init *)

Unassigned ==
    /\ df = NoFrame
    /\ price_range = <<>> /\ cities = <<>> /\ sqft_range = <<>>
    /\ min_beds = 0 /\ max_beds = 0 /\ min_baths = 0 /\ max_baths = 0
    /\ filtered_data = NoFrame
    /\ city_names = <<>>
    /\ tab1 = [shown |-> "none", means |-> <<>>]
    /\ tab2 = NoView
    /\ tab3 = NoTab3
    /\ map = NoMap
    /\ heatmap = "none"
    /\ city_avg_price = <<>>
    /\ threshold = 0
    /\ city_listings = <<>>

Init ==
    /\ csv \in Files(MaxRows)
    /\ tieRank \in TieRanks
    /\ reads = 0
    /\ pc = "load"
    /\ widget = NoWidgets
    /\ Unassigned

-----------------------------------------------------------------------------
(* line 14 *)

Load ==
    /\ pc = "load"
    /\ reads' = reads + 1
    /\ df' = read_csv(csv)
    /\ pc' = "sidebar"
    /\ UNCHANGED <<csv, tieRank, widget, controls, views>>

-----------------------------------------------------------------------------
(* lines 44-71: the sidebar widgets *)

\* int(df["Price"].min()) of an empty column is int(nan): ValueError.
\* A multiselect whose default is not among its options raises.
Sidebar ==
    /\ pc = "sidebar"
    /\ IF df.rows = <<>>
       THEN /\ pc' = "sidebar_failed"
            /\ UNCHANGED controls
       ELSE IF ~widget["cities"].set /\ Seed \notin Range(CityOptions(df))
       THEN /\ pc' = "sidebar_failed"
            /\ price_range' = SliderValue(df, "price")
            /\ UNCHANGED <<cities, min_beds, max_beds, min_baths, max_baths, sqft_range>>
       ELSE /\ pc' = "filter"
            /\ price_range' = SliderValue(df, "price")
            /\ cities' = CitiesValue
            /\ min_beds' = SliderValue(df, "beds")[1]
            /\ max_beds' = SliderValue(df, "beds")[2]
            /\ min_baths' = SliderValue(df, "baths")[1]
            /\ max_baths' = SliderValue(df, "baths")[2]
            /\ sqft_range' = SliderValue(df, "sqft")
    /\ UNCHANGED <<csv, tieRank, reads, widget, df, views>>

-----------------------------------------------------------------------------
(* lines 75-85: the filter, as pandas evaluates it: one boolean mask per      *)
(* comparison, combined elementwise with &, then boolean indexing             *)

ge(col, v) == [i \in DOMAIN col |-> col[i] >= v]
\* le with the bound excluded
lt(col, v) == [i \in DOMAIN col |-> col[i] < v]
le(col, v) == [i \in DOMAIN col |-> col[i] <= v]
isin(col, values) == [i \in DOMAIN col |-> col[i] \in Range(values)]
\* | in place of &
either(m1, m2) == [i \in DOMAIN m1 |-> m1[i] \/ m2[i]]
and(m1, m2) == [i \in DOMAIN m1 |-> m1[i] /\ m2[i]]

RECURSIVE Keep(_, _)
Keep(s, mask) ==
    IF s = <<>> THEN <<>>
    ELSE (IF mask[1] THEN <<s[1]>> ELSE <<>>) \o Keep(Tail(s), Tail(mask))

\* frame[mask]
BooleanIndex(frame, mask) ==
    [columns |-> frame.columns,
     rows |-> Keep(frame.rows, mask),
     Selected |-> IF frame.Selected = <<>> THEN <<>> ELSE Keep(frame.Selected, mask),
     Color |-> IF frame.Color = <<>> THEN <<>> ELSE Keep(frame.Color, mask)]

FilterMask(frame, pr, cs, bmin, bmax, bamin, bamax, sq) ==
    and(and(and(and(and(and(and(and(
        ge(Column(frame, "Price"), pr[1]),
        le(Column(frame, "Price"), pr[2])),
        isin(Column(frame, "City"), cs)),
        ge(Column(frame, "Beds"), bmin)),
        le(Column(frame, "Beds"), bmax)),
        ge(Column(frame, "Baths"), bamin)),
        le(Column(frame, "Baths"), bamax)),
        ge(Column(frame, "Square_Feet"), sq[1])),
        le(Column(frame, "Square_Feet"), sq[2]))

Filter ==
    /\ pc = "filter"
    /\ filtered_data' = BooleanIndex(df,
           FilterMask(df, price_range, cities, min_beds, max_beds,
                      min_baths, max_baths, sqft_range))
    /\ pc' = "label"
    /\ UNCHANGED <<csv, tieRank, reads, widget, df, controls, city_names,
                   tab1, tab2, tab3, map, heatmap, city_avg_price, threshold,
                   city_listings>>

-----------------------------------------------------------------------------
(* lines 91-102: the header label, as the pieces of the formatted string *)

RECURSIVE join(_, _)
join(sep, s) ==
    IF Len(s) <= 1 THEN s
    ELSE <<s[1], sep>> \o join(sep, Tail(s))

format_city_names(cs) ==
    IF cs = <<>> THEN <<"All Cities">>
    ELSE IF Len(cs) = 1 THEN <<cs[1]>>
    ELSE IF Len(cs) = 2 THEN <<cs[1], " & ", cs[2]>>
    ELSE join(", ", SubSeq(cs, 1, Len(cs) - 1)) \o <<" & ", cs[Len(cs)]>>

FormatCityNames ==
    /\ pc = "label"
    /\ city_names' = format_city_names(cities)
    /\ pc' = "tab1"
    /\ UNCHANGED <<csv, tieRank, reads, widget, df, controls, filtered_data,
                   tab1, tab2, tab3, map, heatmap, city_avg_price, threshold,
                   city_listings>>

-----------------------------------------------------------------------------
(* lines 105-163: the three consumers of the filtered view *)

\* DataFrame.empty
empty(frame) == frame.rows = <<>> \/ frame.columns = {}

Summary(frame) ==
    [Price |-> Mean(Column(frame, "Price")),
     Square_Feet |-> Mean(Column(frame, "Square_Feet")),
     Beds |-> Mean(Column(frame, "Beds")),
     Baths |-> Mean(Column(frame, "Baths"))]

\* Tab1View without the empty check
Tab1ViewUnguarded(frame) == [shown |-> "stats", means |-> Summary(frame)]

Tab1View(frame) ==
    IF empty(frame) THEN [shown |-> "nodata", means |-> <<>>]
    ELSE [shown |-> "stats", means |-> Summary(frame)]

Tab1 ==
    /\ pc = "tab1"
    /\ tab1' = Tab1View(filtered_data)
    /\ pc' = "tab2"
    /\ UNCHANGED <<csv, tieRank, reads, widget, df, controls, filtered_data,
                   city_names, tab2, tab3, map, heatmap, city_avg_price,
                   threshold, city_listings>>

Tab2View(frame) ==
    IF empty(frame) THEN [shown |-> "nodata", data |-> <<>>]
    ELSE [shown |-> "charts", data |-> frame.rows]

Tab2 ==
    /\ pc = "tab2"
    /\ tab2' = Tab2View(filtered_data)
    /\ pc' = "tab3"
    /\ UNCHANGED <<csv, tieRank, reads, widget, df, controls, filtered_data,
                   city_names, tab1, tab3, map, heatmap, city_avg_price,
                   threshold, city_listings>>

\* DataFrame.to_csv(index=False): the header line, then one record per row.
to_csv(frame) == <<frame.columns>> \o frame.rows

Tab3View(frame) ==
    IF empty(frame) THEN [shown |-> "nodata", data |-> <<>>, download |-> <<>>]
    ELSE [shown |-> "table", data |-> frame.rows, download |-> to_csv(frame)]

Tab3 ==
    /\ pc = "tab3"
    /\ tab3' = Tab3View(filtered_data)
    /\ pc' = "tab4_map"
    /\ UNCHANGED <<csv, tieRank, reads, widget, df, controls, filtered_data,
                   city_names, tab1, tab2, map, heatmap, city_avg_price,
                   threshold, city_listings>>

-----------------------------------------------------------------------------
(* lines 165-223: the properties map *)

get_color(selected) == IF selected THEN "green" ELSE "red"

\* df["Selected"] = ...; df["Color"] = ...: column assignment on df itself.
AddSelectionColumns(frame, cs) ==
    [columns |-> frame.columns \cup {"Selected", "Color"},
     rows |-> frame.rows,
     Selected |-> isin(Column(frame, "City"), cs),
     Color |-> [i \in DOMAIN frame.rows |->
                  get_color(isin(Column(frame, "City"), cs)[i])]]

HasGeoColumns(frame) == "Latitude" \in frame.columns /\ "Longitude" \in frame.columns

Tab4Map ==
    /\ pc = "tab4_map"
    /\ IF HasGeoColumns(df)
       THEN /\ df' = AddSelectionColumns(df, cities)
            /\ map' = [shown |-> "map", points |-> df'.Color]
       ELSE /\ map' = [shown |-> "skipped", points |-> <<>>]
            /\ UNCHANGED df
    /\ pc' = "tab4_heatmap"
    /\ UNCHANGED <<csv, tieRank, reads, widget, controls, filtered_data,
                   city_names, tab1, tab2, tab3, heatmap, city_avg_price,
                   threshold, city_listings>>

(* lines 226-239: the pricing heatmap reads df["Latitude"] and               *)
(* df["Longitude"] without a guard; a missing column raises and ends the run *)

Tab4Heatmap ==
    /\ pc = "tab4_heatmap"
    /\ IF HasGeoColumns(df)
       THEN /\ heatmap' = "drawn"
            /\ pc' = "tab5_avg"
       ELSE /\ heatmap' = "raised"
            /\ pc' = "heatmap_failed"
    /\ UNCHANGED <<csv, tieRank, reads, widget, df, controls, filtered_data,
                   city_names, tab1, tab2, tab3, map, city_avg_price,
                   threshold, city_listings>>

-----------------------------------------------------------------------------
(* line 242: average price by city *)

RowsOf(rows, c) == SelectSeq(rows, LAMBDA r : r.City = c)

GroupKeys(rows) == { rows[i].City : i \in DOMAIN rows }

GroupMean(rows, c) == Mean([i \in DOMAIN RowsOf(rows, c) |-> RowsOf(rows, c)[i].Price])

\* a/b > c/d and a/b = c/d on exact means
MeanGreater(m1, m2) == m1.sum * m2.n > m2.sum * m1.n
MeanEqual(m1, m2) == m1.sum * m2.n = m2.sum * m1.n

\* sort_values(ascending=False) with the default kind (quicksort, not stable):
\* descending by mean; equal means come out in the order the build leaves them.
Precedes(rows, rank, a, b) ==
    \/ MeanGreater(GroupMean(rows, a), GroupMean(rows, b))
    \/ /\ MeanEqual(GroupMean(rows, a), GroupMean(rows, b))
       /\ rank[a] < rank[b]

RECURSIVE SortGroups(_, _, _)
SortGroups(rows, rank, keys) ==
    IF keys = {} THEN <<>>
    ELSE LET first == CHOOSE a \in keys :
                        \A b \in keys \ {a} : Precedes(rows, rank, a, b)
         IN <<first>> \o SortGroups(rows, rank, keys \ {first})

GroupAverage(rows, rank) ==
    LET order == SortGroups(rows, rank, GroupKeys(rows))
    IN [i \in DOMAIN order |->
          [City |-> order[i], Price |-> GroupMean(rows, order[i])]]

\* Tab5Avg grouping the filtered view in place of df
Tab5AvgOverView ==
    /\ pc = "tab5_avg"
    /\ city_avg_price' = GroupAverage(filtered_data.rows, tieRank)
    /\ pc' = "tab5_share"
    /\ UNCHANGED <<csv, tieRank, reads, widget, df, controls, filtered_data,
                   city_names, tab1, tab2, tab3, map, heatmap, threshold,
                   city_listings>>

Tab5Avg ==
    /\ pc = "tab5_avg"
    /\ city_avg_price' = GroupAverage(df.rows, tieRank)
    /\ pc' = "tab5_share"
    /\ UNCHANGED <<csv, tieRank, reads, widget, df, controls, filtered_data,
                   city_names, tab1, tab2, tab3, map, heatmap, threshold,
                   city_listings>>

-----------------------------------------------------------------------------
(* lines 295-304: market share of listings by city *)

RECURSIVE SumOver(_, _)
SumOver(f, S) ==
    IF S = {} THEN 0
    ELSE LET x == CHOOSE y \in S : TRUE
         IN f[x] + SumOver(f, S \ {x})

\* value_counts(normalize=True) * 100, in units of 1/Len(rows) percent
Percentages(rows) == [c \in GroupKeys(rows) |-> Len(RowsOf(rows, c)) * 100]

\* Relabel with a city exactly at the threshold merged too
RelabelExclusive(rows, th) ==
    [c \in GroupKeys(rows) |->
        IF Percentages(rows)[c] > th * Len(rows) THEN c ELSE Other]

\* City.where(Percentage >= threshold, "Other")
Relabel(rows, th) ==
    [c \in GroupKeys(rows) |->
        IF Percentages(rows)[c] >= th * Len(rows) THEN c ELSE Other]

\* groupby("City", as_index=False).sum(): one row per label, labels ascending
MarketShare(rows, th) ==
    LET label == Relabel(rows, th)
        kept == SelectSeq(LabelOrder,
                          LAMBDA l : \E c \in GroupKeys(rows) : label[c] = l)
    IN [i \in DOMAIN kept |->
          [City |-> kept[i],
           Percentage |-> SumOver(Percentages(rows),
                                  { c \in GroupKeys(rows) : label[c] = kept[i] })]]

ThresholdPercent == 2

Tab5Share ==
    /\ pc = "tab5_share"
    /\ threshold' = ThresholdPercent
    /\ city_listings' = MarketShare(df.rows, ThresholdPercent)
    /\ pc' = "idle"
    /\ UNCHANGED <<csv, tieRank, reads, widget, df, controls, filtered_data,
                   city_names, tab1, tab2, tab3, map, heatmap, city_avg_price>>

-----------------------------------------------------------------------------
(* A widget interaction: Streamlit stores the new value and runs the script  *)
(* again from its first line, in a fresh namespace.                          *)

WidgetValue(k) ==
    IF k = "cities" THEN CitiesValue ELSE SliderValue(read_csv(csv), k)

\* The multiselect adds one option at the end or removes one chosen city;
\* a slider moves to another pair inside its range.
WidgetChoices(k) ==
    IF k = "cities"
    THEN { Append(CitiesValue, c) : c \in Range(CityOptions(read_csv(csv))) \ Range(CitiesValue) }
         \cup { SelectSeq(CitiesValue, LAMBDA c : c # d) : d \in Range(CitiesValue) }
    ELSE SliderChoices(read_csv(csv), k) \ {WidgetValue(k)}

FreshNamespace ==
    /\ df' = NoFrame
    /\ price_range' = <<>> /\ cities' = <<>> /\ sqft_range' = <<>>
    /\ min_beds' = 0 /\ max_beds' = 0 /\ min_baths' = 0 /\ max_baths' = 0
    /\ filtered_data' = NoFrame
    /\ city_names' = <<>>
    /\ tab1' = [shown |-> "none", means |-> <<>>]
    /\ tab2' = NoView
    /\ tab3' = NoTab3
    /\ map' = NoMap
    /\ heatmap' = "none"
    /\ city_avg_price' = <<>>
    /\ threshold' = 0
    /\ city_listings' = <<>>

Interact ==
    /\ pc \in {"idle", "heatmap_failed"}
    /\ reads < MaxCycles
    /\ \E k \in DOMAIN widget :
         \E v \in WidgetChoices(k) :
            widget' = [widget EXCEPT ![k] = [set |-> TRUE, val |-> v]]
    /\ pc' = "load"
    /\ FreshNamespace
    /\ UNCHANGED <<csv, tieRank, reads>>

-----------------------------------------------------------------------------

Next ==
    \/ Load
    \/ Sidebar
    \/ Filter
    \/ FormatCityNames
    \/ Tab1
    \/ Tab2
    \/ Tab3
    \/ Tab4Map
    \/ Tab4Heatmap
    \/ Tab5Avg
    \/ Tab5Share
    \/ Interact

Spec == Init /\ [][Next]_vars

-----------------------------------------------------------------------------
(* The filter as a function of its inputs: any table, any constraint set,   *)
(* including bounds no slider can return (lower above upper).               *)

AnyRank == CHOOSE f \in TieRanks : TRUE

InitFilter ==
    /\ csv \in [rows : SeqsUpTo(Listings, MaxRows), hasLat : {TRUE}, hasLon : {TRUE}]
    /\ tieRank = AnyRank
    /\ reads = 1
    /\ widget = NoWidgets
    /\ df = read_csv(csv)
    /\ price_range \in Vals \X Vals
    /\ cities \in CitySelections
    /\ min_beds \in Vals /\ max_beds \in Vals
    /\ min_baths \in Vals /\ max_baths \in Vals
    /\ sqft_range \in Vals \X Vals
    /\ pc = "filter"
    /\ filtered_data = NoFrame
    /\ city_names = <<>>
    /\ tab1 = [shown |-> "none", means |-> <<>>]
    /\ tab2 = NoView
    /\ tab3 = NoTab3
    /\ map = NoMap
    /\ heatmap = "none"
    /\ city_avg_price = <<>>
    /\ threshold = 0
    /\ city_listings = <<>>

NextFilter ==
    \/ Filter
    \/ FormatCityNames
    \/ Tab1
    \/ Tab2
    \/ Tab3

SpecFilter == InitFilter /\ [][NextFilter]_vars

-----------------------------------------------------------------------------
(* The two comparison aggregates as functions of their inputs: any table,   *)
(* any threshold.                                                           *)

Thresholds == {0, 2, 25, 26, 34, 50, 51, 101}

InitAggregate ==
    /\ csv \in [rows : SeqsUpTo(Listings, MaxAggRows), hasLat : {TRUE}, hasLon : {TRUE}]
    /\ tieRank \in TieRanks
    /\ reads = 1
    /\ widget = NoWidgets
    /\ df = read_csv(csv)
    /\ price_range = <<>> /\ cities = <<>> /\ sqft_range = <<>>
    /\ min_beds = 0 /\ max_beds = 0 /\ min_baths = 0 /\ max_baths = 0
    /\ pc = "aggregate"
    /\ filtered_data = NoFrame
    /\ city_names = <<>>
    /\ tab1 = [shown |-> "none", means |-> <<>>]
    /\ tab2 = NoView
    /\ tab3 = NoTab3
    /\ map = NoMap
    /\ heatmap = "none"
    /\ city_avg_price = <<>>
    /\ threshold = 0
    /\ city_listings = <<>>

GroupAverageCall ==
    /\ pc = "aggregate"
    /\ city_avg_price' = GroupAverage(df.rows, tieRank)
    /\ UNCHANGED <<csv, tieRank, reads, pc, widget, df, controls, filtered_data,
                   city_names, tab1, tab2, tab3, map, heatmap, threshold,
                   city_listings>>

MarketShareCall ==
    /\ pc = "aggregate"
    /\ \E th \in Thresholds :
         /\ threshold' = th
         /\ city_listings' = MarketShare(df.rows, th)
    /\ UNCHANGED <<csv, tieRank, reads, pc, widget, df, controls, filtered_data,
                   city_names, tab1, tab2, tab3, map, heatmap, city_avg_price>>

NextAggregate ==
    \/ GroupAverageCall
    \/ MarketShareCall

SpecAggregate == InitAggregate /\ [][NextAggregate]_vars

-----------------------------------------------------------------------------
(* Properties *)

\* What has run in the current render cycle, read off what it assigned.
Filtered == filtered_data.columns # {}
Labelled == city_names # <<>>

Occurrences(s, r) == Cardinality({ i \in DOMAIN s : s[i] = r })

InRanges(r) ==
    /\ price_range[1] <= r.Price /\ r.Price <= price_range[2]
    /\ min_beds <= r.Beds /\ r.Beds <= max_beds
    /\ min_baths <= r.Baths /\ r.Baths <= max_baths
    /\ sqft_range[1] <= r.Square_Feet /\ r.Square_Feet <= sqft_range[2]

Satisfies(r) == InRanges(r) /\ \E i \in DOMAIN cities : cities[i] = r.City

\* C1: the filtered view holds a listing of the table exactly when the listing
\* satisfies every predicate of the constraint set at once (inclusive bounds,
\* city among the selected cities); each such listing appears as often as in
\* the table, and no other listing appears.
FilterExact ==
    Filtered =>
        \A r \in Listings :
            Occurrences(filtered_data.rows, r) =
                IF Satisfies(r) THEN Occurrences(df.rows, r) ELSE 0

\* A two-row table of which one row is kept, lying on both price bounds.
FilterExactWitness ==
    /\ Filtered
    /\ Len(df.rows) = 2
    /\ Len(filtered_data.rows) = 1
    /\ filtered_data.rows[1].Price = price_range[1]
    /\ filtered_data.rows[1].Price = price_range[2]
    /\ \E i \in DOMAIN df.rows :
          /\ df.rows[i].City = filtered_data.rows[1].City
          /\ df.rows[i].Price > price_range[2]

\* C2: after load the source table keeps exactly the rows and columns it was
\* loaded with, whatever the script runs (filtering, map tagging).
SourceImmutable ==
    (reads > 0 /\ df # NoFrame) =>
        /\ df.columns = read_csv(csv).columns
        /\ df.rows = csv.rows

\* C3: the dataset file is read once in a session; no interaction reads it again.
ReadOnce == reads <= 1

\* C4: an empty filtered view makes each of its consumers report the no-data
\* condition and compute nothing over it; a mean is computed only over a
\* non-empty view and is never NaN.
EmptyViewReported ==
    /\ (tab1.shown # "none" /\ filtered_data.rows = <<>>) =>
          /\ tab1.shown = "nodata"
          /\ tab1.means = <<>>
    /\ (tab2.shown # "none" /\ filtered_data.rows = <<>>) =>
          /\ tab2.shown = "nodata"
          /\ tab2.data = <<>>
    /\ (tab3.shown # "none" /\ filtered_data.rows = <<>>) =>
          /\ tab3.shown = "nodata"
          /\ tab3.data = <<>>
          /\ tab3.download = <<>>
    /\ tab1.shown = "stats" =>
          /\ filtered_data.rows # <<>>
          /\ \A k \in {"Price", "Square_Feet", "Beds", "Baths"} :
                ~IsNaN(tab1.means[k])

\* A cycle over a non-empty table whose filtered view is empty, all three
\* consumers done.
EmptyViewReportedWitness ==
    /\ pc = "idle"
    /\ df.rows # <<>>
    /\ filtered_data.rows = <<>>
    /\ tab1.shown = "nodata"
    /\ tab2.shown = "nodata"
    /\ tab3.shown = "nodata"

Malformed ==
    \/ price_range[1] > price_range[2]
    \/ min_beds > max_beds
    \/ min_baths > max_baths
    \/ sqft_range[1] > sqft_range[2]

\* C5: a constraint set with a lower bound above its upper bound never stops
\* the filter: the filter step can always be taken, returns the empty view, and
\* the views report the no-data condition.
MalformedGivesNoData ==
    /\ pc = "filter" => ENABLED Filter
    /\ (Filtered /\ Malformed) =>
          /\ filtered_data.rows = <<>>
          /\ tab1.shown \in {"none", "nodata"}
          /\ tab2.shown \in {"none", "nodata"}
          /\ tab3.shown \in {"none", "nodata"}

\* A two-row table, every city selected, only the bathroom bounds inverted.
MalformedGivesNoDataWitness ==
    /\ Filtered
    /\ Len(df.rows) = 2
    /\ { cities[i] : i \in DOMAIN cities } = Cities
    /\ price_range = <<1, 2>> /\ sqft_range = <<1, 2>>
    /\ min_beds = 1 /\ max_beds = 2
    /\ min_baths = 2 /\ max_baths = 1
    /\ tab1.shown = "nodata" /\ tab2.shown = "nodata" /\ tab3.shown = "nodata"

Count(c) == Cardinality({ i \in DOMAIN df.rows : df.rows[i].City = c })
AtOrAbove(c) == Count(c) * 100 >= threshold * Len(df.rows)
Entries(l) == { i \in DOMAIN city_listings : city_listings[i].City = l }
Below == { c \in Cities : Count(c) > 0 /\ ~AtOrAbove(c) }

\* C6: for a non-empty table and any threshold, marketShare returns one entry
\* per city whose share is at or above the threshold, and at most one "Other"
\* entry whose share is the sum of the shares of the cities below it; the
\* shares add up to 100 percent.
MarketShareComplete ==
    city_listings # <<>> =>
        /\ \A c \in Cities :
              IF Count(c) > 0 /\ AtOrAbove(c)
              THEN /\ Cardinality(Entries(c)) = 1
                   /\ \A i \in Entries(c) :
                         city_listings[i].Percentage = Count(c) * 100
              ELSE Entries(c) = {}
        /\ Cardinality(Entries(Other)) <= 1
        /\ (Entries(Other) # {}) <=> (Below # {})
        /\ \A i \in Entries(Other) :
              city_listings[i].Percentage =
                  SumOver([c \in Cities |-> Count(c) * 100], Below)
        /\ \A i \in DOMAIN city_listings :
              city_listings[i].City \in Cities \cup {Other}
        /\ SumSeq([i \in DOMAIN city_listings |-> city_listings[i].Percentage])
              = 100 * Len(df.rows)

\* Four rows: one city with half of them kept, two cities with a quarter each
\* merged into "Other".
MarketShareCompleteWitness ==
    /\ Len(df.rows) = 4
    /\ threshold = 26
    /\ Len(city_listings) = 2
    /\ Cardinality(Below) = 2
    /\ \E i \in Entries(Other) : city_listings[i].Percentage = 200

FirstSeen(c) ==
    CHOOSE i \in DOMAIN df.rows :
        /\ df.rows[i].City = c
        /\ \A j \in DOMAIN df.rows : df.rows[j].City = c => i <= j

\* C7: groupAverage by City returns one (city, mean Price) entry per city,
\* ordered by descending mean, cities with equal means in first-seen order.
GroupAverageTiesFirstSeen ==
    city_avg_price # <<>> =>
        /\ \A c \in Cities :
              Cardinality({ i \in DOMAIN city_avg_price :
                              city_avg_price[i].City = c })
                  = IF Count(c) > 0 THEN 1 ELSE 0
        /\ \A i, j \in DOMAIN city_avg_price :
              i < j =>
                \/ MeanGreater(city_avg_price[i].Price, city_avg_price[j].Price)
                \/ /\ MeanEqual(city_avg_price[i].Price, city_avg_price[j].Price)
                   /\ FirstSeen(city_avg_price[i].City)
                        < FirstSeen(city_avg_price[j].City)

UserSelectedNoCity == ~widget["cities"].set \/ widget["cities"].val = <<>>

AbsentGeoSkipped ==
    ~(csv.hasLat /\ csv.hasLon) =>
        /\ map.shown \in {"none", "skipped"}
        /\ heatmap \in {"none", "skipped"}
        /\ pc # "heatmap_failed"

CsvCount(c) == Cardinality({ i \in DOMAIN csv.rows : csv.rows[i].City = c })

\* C10: the comparison aggregates are those of all rows of the dataset,
\* whatever the constraint set of the cycle and whatever ran before: one mean
\* per city of the dataset, taken over all the city's rows, and the shares of
\* all rows; both are the same function of the file in every cycle.
AggregatesOverAllRows ==
    /\ city_avg_price # <<>> =>
          /\ city_avg_price = GroupAverage(csv.rows, tieRank)
          /\ \A c \in Cities :
                CsvCount(c) > 0 =>
                    \E i \in DOMAIN city_avg_price :
                        /\ city_avg_price[i].City = c
                        /\ city_avg_price[i].Price.n = CsvCount(c)
    /\ city_listings # <<>> =>
          /\ city_listings = MarketShare(csv.rows, ThresholdPercent)
          /\ SumSeq([i \in DOMAIN city_listings |-> city_listings[i].Percentage])
                = 100 * Len(csv.rows)

\* A later cycle, finished, whose view is a proper part of the table, after
\* the map step has added its columns, with an unselected city aggregated.
AggregatesOverAllRowsWitness ==
    /\ pc = "idle"
    /\ reads >= 2
    /\ Len(filtered_data.rows) < Len(csv.rows)
    /\ "Selected" \in df.columns
    /\ \E i \in DOMAIN city_avg_price :
          \A j \in DOMAIN cities : cities[j] # city_avg_price[i].City
    /\ city_listings # <<>>

====
